---- MODULE Spec2Model ----
(***************************************************************************)
(* Model of scan.py: the term-frequency pipeline                           *)
(*   fetch_web_page -> text_corpus_from_html -> term_frequency_stats ->    *)
(*   print_term_frequencies_stats, driven by calculate_term_frequency.     *)
(*                                                                         *)
(* Representation.  A Python str is a sequence of symbols.  Data text is   *)
(* one symbol per character; a literal of the program ('Failed. ', ...)    *)
(* is one symbol.  An Optional value is a set with at most one element:    *)
(* None is {} and a present value x is {x}.  A parsed document (the        *)
(* BeautifulSoup tree) is a sequence of nodes in document (pre-order)      *)
(* order, each naming its parent (0 is the soup object itself).            *)
(***************************************************************************)
EXTENDS Integers, Sequences, FiniteSets, TLC

VARIABLES
    pc,                  \* position of the running code
    stack,               \* callers of the running function (<<>> or <<"main">>)
    exc,                 \* the exception in flight or escaped, None when there is none
    retval,              \* value returned by the last function that returned
    out,                 \* standard output: the lines printed so far
    calls,               \* the functions calculate_term_frequency has called, in order
    url, verbose,        \* arguments of fetch_web_page / calculate_term_frequency
    net,                 \* what requests.get will do for url
    req_response,        \* fetch_web_page: the response, None before one is received
    html_text,           \* text_corpus_from_html: the page, as the tree it parses to
    text_pieces,         \* text_corpus_from_html: the selected string nodes
    all_lines,           \* text_corpus_from_html: the lines
    all_texts,           \* term_frequency_stats: the lines to process
    text_idx,            \* term_frequency_stats: lines taken by the outer for loop
    tokens,              \* term_frequency_stats: tokens of the current line not yet consumed
    terms,               \* term_frequency_stats: the Counter, in insertion order
    title,               \* print_term_frequencies_stats: title
    terms_frequencies,   \* print_term_frequencies_stats: the Counter to print
    first_n,             \* print_term_frequencies_stats: first_n (None or an integer)
    ranked,              \* print_term_frequencies_stats: most_common(first_n)
    entry_idx,           \* print_term_frequencies_stats: entries taken by the for loop
    out_lines_text_len,  \* print_term_frequencies_stats: term column width
    out_lines_freq_len   \* print_term_frequencies_stats: frequency column width

ctlVars    == <<pc, stack, exc, retval, out, calls>>
fetchVars  == <<url, verbose, net, req_response>>
corpusVars == <<html_text, text_pieces, all_lines>>
termVars   == <<all_texts, text_idx, tokens, terms>>
printVars  == <<title, terms_frequencies, first_n, ranked, entry_idx,
                out_lines_text_len, out_lines_freq_len>>
vars == <<ctlVars, fetchVars, corpusVars, termVars, printVars>>

-----------------------------------------------------------------------------
(* Bounds of the model *)

MaxText == 4        \* characters (line breaks included) of a term_frequency_stats input
MaxNodes == 5       \* nodes of a document given to text_corpus_from_html
MaxEntries == 3     \* entries of a table given to print_term_frequencies_stats
MaxPageNodes == 4   \* nodes of a page served to calculate_term_frequency

-----------------------------------------------------------------------------
(* Generic helpers *)

None == {}
Some(x) == {x}
TheValue(o) == CHOOSE x \in o : TRUE

BoundedSeq(S, n) == UNION {[1..m -> S] : m \in 0..n}

Max(a, b) == IF a >= b THEN a ELSE b
Min(a, b) == IF a <= b THEN a ELSE b

RECURSIVE Flatten(_)
Flatten(ss) == IF ss = <<>> THEN <<>> ELSE Head(ss) \o Flatten(Tail(ss))

-----------------------------------------------------------------------------
(* Characters and str methods *)

NL   == "\n"
CapitalIDot  == "U+0130"   \* LATIN CAPITAL LETTER I WITH DOT ABOVE
CombiningDot == "U+0307"   \* COMBINING DOT ABOVE (category Mn)

LowerLetters == {"a", "h", "i", "x", "y"}
UpperLetters == {"H", CapitalIDot}
Digits       == {"0", "1", "2", "3", "4", "5", "6", "7", "8", "9"}
Whitespace   == {" ", NL, "\t"}

\* str.isalpha, one character
IsAlphaChar(c) == c \in LowerLetters \cup UpperLetters
\* \w of the re module: alphanumeric or underscore
IsWordChar(c) == IsAlphaChar(c) \/ c \in Digits \/ c = "_"
\* \s of the re module, str.strip's default set
IsSpaceChar(c) == c \in Whitespace

\* str.lower, one character: the full Unicode lower-casing, which maps
\* U+0130 to the two code points 'i' U+0307
LowerChar(c) ==
    CASE c = "H" -> <<"h">>
      [] c = CapitalIDot -> <<"i", CombiningDot>>
      [] OTHER -> <<c>>

\* str.isalpha: non-empty and every character alphabetic
IsAlpha(s) == s # <<>> /\ \A i \in 1..Len(s) : IsAlphaChar(s[i])

\* str.lower
Lower(s) == Flatten([i \in 1..Len(s) |-> LowerChar(s[i])])

\* str.strip()
RECURSIVE LStrip(_)
LStrip(s) == IF s # <<>> /\ IsSpaceChar(Head(s)) THEN LStrip(Tail(s)) ELSE s
RECURSIVE RStrip(_)
RStrip(s) ==
    IF s # <<>> /\ IsSpaceChar(s[Len(s)]) THEN RStrip(SubSeq(s, 1, Len(s) - 1)) ELSE s
Strip(s) == RStrip(LStrip(s))

\* str.split(sep) for a one-character sep: always at least one segment
RECURSIVE Split(_, _)
Split(s, sep) ==
    IF \E i \in 1..Len(s) : s[i] = sep
    THEN LET i == CHOOSE j \in 1..Len(s) : s[j] = sep /\ \A l \in 1..(j - 1) : s[l] # sep
         IN  <<SubSeq(s, 1, i - 1)>> \o Split(SubSeq(s, i + 1, Len(s)), sep)
    ELSE <<s>>

-----------------------------------------------------------------------------
(* term_frequency_stats *)

\* nltk's wordpunct_tokenize: re.findall(r"\w+|[^\w\s]+", text)
TokenClass(c) == IF IsWordChar(c) THEN "w" ELSE IF IsSpaceChar(c) THEN "s" ELSE "p"
RunLength(text, cls) ==
    CHOOSE n \in 1..Len(text) :
        /\ \A i \in 1..n : TokenClass(text[i]) = cls
        /\ n < Len(text) => TokenClass(text[n + 1]) # cls
RECURSIVE WordPunctTokenize(_)
WordPunctTokenize(text) ==
    IF text = <<>> THEN <<>>
    ELSE LET cls == TokenClass(text[1])
             n == RunLength(text, cls)
             rest == WordPunctTokenize(SubSeq(text, n + 1, Len(text)))
         IN  IF cls = "s" THEN rest ELSE <<SubSeq(text, 1, n)>> \o rest

\* stopwords.words('english'): the members the model's alphabet can spell
StopWords == {<<"a">>, <<"i">>}

\* Counter: a sequence of [term, count] entries in insertion order
CounterKeys(c) == {c[i].term : i \in 1..Len(c)}
CounterGet(c, t) ==
    IF t \in CounterKeys(c)
    THEN (c[CHOOSE i \in 1..Len(c) : c[i].term = t]).count
    ELSE 0
\* terms[term] += 1
CounterIncr(c, t) ==
    IF t \in CounterKeys(c)
    THEN [i \in 1..Len(c) |-> IF c[i].term = t THEN [c[i] EXCEPT !.count = @ + 1] ELSE c[i]]
    ELSE Append(c, [term |-> t, count |-> 1])

\* One pass of the inner loop body for raw token t (lines 107, 110, 113)
\* (faulty variant: the isalpha test of line 107 left out)
CountTokenNoAlphaCheck(c, t) ==
    IF Lower(t) \notin StopWords THEN CounterIncr(c, Lower(t)) ELSE c
CountToken(c, t) ==
    IF IsAlpha(t) /\ Lower(t) \notin StopWords THEN CounterIncr(c, Lower(t)) ELSE c

\* return v: to the caller when there is one
Return(v) ==
    /\ retval' = Some(v)
    /\ pc' = IF stack = <<>> THEN "done" ELSE "main_returned"

\* line 105, 107: the for loop takes the next line and tokenizes it
TfsNextText ==
    /\ pc = "tfs_loop" /\ tokens = <<>> /\ text_idx < Len(all_texts)
    /\ text_idx' = text_idx + 1
    /\ tokens' = WordPunctTokenize(all_texts[text_idx + 1])
    /\ UNCHANGED <<all_texts, terms>>
    /\ UNCHANGED <<ctlVars, fetchVars, corpusVars, printVars>>

\* lines 107-113: the next token goes through the filters and is counted
TfsCountToken ==
    /\ pc = "tfs_loop" /\ tokens # <<>>
    /\ terms' = CountToken(terms, Head(tokens))
    /\ tokens' = Tail(tokens)
    /\ UNCHANGED <<all_texts, text_idx>>
    /\ UNCHANGED <<ctlVars, fetchVars, corpusVars, printVars>>

\* line 115
TfsReturn ==
    /\ pc = "tfs_loop" /\ tokens = <<>> /\ text_idx = Len(all_texts)
    /\ Return(terms)
    /\ UNCHANGED <<stack, exc, out, calls>>
    /\ UNCHANGED <<fetchVars, corpusVars, termVars, printVars>>

-----------------------------------------------------------------------------
(* Exceptions *)

\* raise e: to the caller's handlers when there is a caller
Raise(e) ==
    /\ exc' = Some(e)
    /\ pc' = IF stack = <<>> THEN "raised" ELSE "main_except"

InvalidUrlException(u, code) == [type |-> "InvalidUrlException", url |-> u, code |-> code]
InvalidHtmlData == [type |-> "InvalidHtmlData"]
\* exceptions of the libraries
ConnectionError == [type |-> "ConnectionError"]
ParserRejectedMarkup == [type |-> "ParserRejectedMarkup"]
AttributeError == [type |-> "AttributeError"]

\* str(int)
RECURSIVE StrOfInt(_)
StrOfInt(n) ==
    LET digit(d) == CASE d = 0 -> "0" [] d = 1 -> "1" [] d = 2 -> "2" [] d = 3 -> "3"
                      [] d = 4 -> "4" [] d = 5 -> "5" [] d = 6 -> "6" [] d = 7 -> "7"
                      [] d = 8 -> "8" [] OTHER -> "9"
    IN  IF n < 0 THEN <<"-">> \o StrOfInt(0 - n)
        ELSE IF n < 10 THEN <<digit(n)>>
        ELSE StrOfInt(n \div 10) \o <<digit(n % 10)>>

\* str(e): __str__ of the two exception classes (lines 27-31, 41-42), and the
\* library's message for the others
StrOfExc(e) ==
    CASE e.type = "InvalidUrlException" ->
            IF e.code = None
            THEN <<"Exception occurred while loading ">> \o e.url
            ELSE <<"Remote server returned ">> \o StrOfInt(TheValue(e.code))
                 \o <<" code for ">> \o e.url
      [] e.type = "InvalidHtmlData" -> <<"Given web page is not a valid html file">>
      [] e.type = "AttributeError" ->
            <<"'NoneType' object has no attribute 'string'">>
      [] OTHER -> <<e.type>>

-----------------------------------------------------------------------------
(* fetch_web_page *)

\* A page as the parser sees it: the tree it builds, or rejected
EmptyPage == [parsed |-> TRUE, nodes |-> <<>>]
RejectedPage == [parsed |-> FALSE, nodes |-> <<>>]

\* What requests.get does: it raises (no response), or returns a response
NoResponse == [ok |-> FALSE, status_code |-> 0, text |-> EmptyPage]
Response(status, page) == [ok |-> TRUE, status_code |-> status, text |-> page]

\* line 53: requests.get(url) returns a response or raises
FetchGet ==
    /\ pc = "fetch_start"
    /\ IF net.ok
       THEN /\ req_response' = Some([status_code |-> net.status_code, text |-> net.text])
            /\ pc' = "fetch_status"
            /\ exc' = exc
       ELSE /\ exc' = Some(ConnectionError)
            /\ pc' = "fetch_except"
            /\ UNCHANGED req_response
    /\ UNCHANGED <<url, verbose, net>>
    /\ UNCHANGED <<stack, retval, out, calls>>
    /\ UNCHANGED <<corpusVars, termVars, printVars>>

\* lines 54-56: the raise of line 55 stands inside the try block, so the handler
\* of line 57 catches it
FetchStatus ==
    /\ pc = "fetch_status"
    /\ IF TheValue(req_response).status_code # 200
       THEN /\ exc' = Some(InvalidUrlException(url, Some(TheValue(req_response).status_code)))
            /\ pc' = "fetch_except"
            /\ UNCHANGED retval
       ELSE /\ Return(TheValue(req_response).text)
            /\ exc' = exc
    /\ UNCHANGED <<stack, out, calls>>
    /\ UNCHANGED <<fetchVars, corpusVars, termVars, printVars>>

\* lines 57-60
FetchExcept ==
    /\ pc = "fetch_except"
    /\ out' = IF verbose
              THEN Append(out, <<"Exception during loading web page: ">>
                               \o StrOfExc(TheValue(exc)))
              ELSE out
    /\ Raise(InvalidUrlException(url, None))
    /\ UNCHANGED <<stack, retval, calls>>
    /\ UNCHANGED <<fetchVars, corpusVars, termVars, printVars>>

-----------------------------------------------------------------------------
(* text_corpus_from_html *)

\* The tree BeautifulSoup(html_text, 'html.parser') builds.  Nodes are Tag
\* objects and NavigableString objects; Comment is a subclass of
\* NavigableString, which is a subclass of str.
IsTag(doc, i) == doc[i].kind = "tag"
\* isinstance(content, str)
IsStr(doc, i) == doc[i].kind \in {"str", "comment"}

\* node.contents: the children of node i (0: the soup), in order
RECURSIVE Ascending(_)
Ascending(S) ==
    IF S = {} THEN <<>>
    ELSE LET m == CHOOSE x \in S : \A y \in S : x <= y
         IN  <<m>> \o Ascending(S \ {m})
Contents(doc, i) == Ascending({j \in 1..Len(doc) : doc[j].parent = i})

\* soup.find_all(name): every tag of that name, in document order
FindAll(doc, name) ==
    Ascending({i \in 1..Len(doc) : IsTag(doc, i) /\ doc[i].name = name})

\* soup.title, that is soup.find('title'): the first such tag, or None
SoupTitle(doc) ==
    IF FindAll(doc, "title") = <<>> THEN None ELSE Some(Head(FindAll(doc, "title")))

\* Tag.string: the single string child, or the .string of the single tag child,
\* and None for a tag with no child or more than one
RECURSIVE TagString(_, _)
TagString(doc, i) ==
    LET kids == Contents(doc, i)
    IN  IF Len(kids) # 1 THEN None
        ELSE IF IsStr(doc, kids[1]) THEN Some(doc[kids[1]].text)
        ELSE TagString(doc, kids[1])

\* line 75: for every div, in order, its children that are str instances
StrContents(doc, node) == SelectSeq(Contents(doc, node), LAMBDA c : IsStr(doc, c))
\* (faulty variant: the strings under divs in document order, not div by div)
TextPiecesDocumentOrder(doc) == Ascending({c \in 1..Len(doc) :
    IsStr(doc, c) /\ doc[c].parent # 0 /\ doc[doc[c].parent].name = "div"})
TextPieces(doc) ==
    Flatten([n \in 1..Len(FindAll(doc, "div")) |-> StrContents(doc, FindAll(doc, "div")[n])])

\* line 78: text_piece.strip().split('\n')
PieceLines(text) == Split(Strip(text), NL)
\* line 81: filter(lambda line: len(line) > 0, ...)
NonEmpty(lines) == SelectSeq(lines, LAMBDA line : Len(line) > 0)

\* lines 72-75
CorpusCollect ==
    /\ pc = "tc_start"
    /\ IF html_text.parsed
       THEN /\ text_pieces' = TextPieces(html_text.nodes)
            /\ pc' = "tc_lines"
            /\ exc' = exc
       ELSE /\ exc' = Some(ParserRejectedMarkup)
            /\ pc' = "tc_except"
            /\ UNCHANGED text_pieces
    /\ UNCHANGED <<html_text, all_lines>>
    /\ UNCHANGED <<stack, retval, out, calls>>
    /\ UNCHANGED <<fetchVars, termVars, printVars>>

\* lines 77-81
CorpusLines ==
    /\ pc = "tc_lines"
    /\ all_lines' = NonEmpty(Flatten([p \in 1..Len(text_pieces) |->
                                 PieceLines(html_text.nodes[text_pieces[p]].text)]))
    /\ pc' = "tc_title"
    /\ UNCHANGED <<html_text, text_pieces>>
    /\ UNCHANGED <<stack, exc, retval, out, calls>>
    /\ UNCHANGED <<fetchVars, termVars, printVars>>

\* lines 83-84: soup_parse.title is None when there is no title tag, and
\* None.string raises AttributeError
CorpusTitle ==
    /\ pc = "tc_title"
    /\ IF SoupTitle(html_text.nodes) = None
       THEN /\ exc' = Some(AttributeError)
            /\ pc' = "tc_except"
            /\ UNCHANGED retval
       ELSE /\ Return(<<TagString(html_text.nodes, TheValue(SoupTitle(html_text.nodes))),
                        all_lines>>)
            /\ exc' = exc
    /\ UNCHANGED <<stack, out, calls>>
    /\ UNCHANGED <<fetchVars, corpusVars, termVars, printVars>>

\* lines 85-88
CorpusExcept ==
    /\ pc = "tc_except"
    /\ out' = IF verbose
              THEN Append(out, <<"Exception occurred during parsing: ">>
                               \o StrOfExc(TheValue(exc)))
              ELSE out
    /\ Raise(InvalidHtmlData)
    /\ UNCHANGED <<stack, retval, calls>>
    /\ UNCHANGED <<fetchVars, corpusVars, termVars, printVars>>

-----------------------------------------------------------------------------
(* print_term_frequencies_stats *)

\* line 123: the least column widths
MinTextLen == 12
MinFreqLen == 4

Spaces(n) == [i \in 1..n |-> " "]
\* str.ljust(width), str.rjust(width): pad with spaces, never cut
LJust(str, width) == str \o Spaces(width - Len(str))
RJust(str, width) == Spaces(width - Len(str)) \o str

\* sorted(items, key=itemgetter(1), reverse=True): a stable sort, so entries of
\* equal count keep their order.  Insert puts e behind every entry of count >= its own.
RECURSIVE InsertByCount(_, _)
InsertByCount(sorted, e) ==
    IF sorted = <<>> THEN <<e>>
    ELSE IF Head(sorted).count >= e.count
         THEN <<Head(sorted)>> \o InsertByCount(Tail(sorted), e)
         ELSE <<e>> \o sorted
\* (faulty variant: a sort that puts a later entry before earlier ones of its count)
RECURSIVE SortedByCountUnstable(_)
SortedByCountUnstable(items) ==
    IF items = <<>> THEN <<>>
    ELSE LET e == items[Len(items)]
             rest == SortedByCountUnstable(SubSeq(items, 1, Len(items) - 1))
             before == SelectSeq(rest, LAMBDA r : r.count > e.count)
             after == SelectSeq(rest, LAMBDA r : r.count <= e.count)
         IN  before \o <<e>> \o after
RECURSIVE SortedByCount(_)
SortedByCount(items) ==
    IF items = <<>> THEN <<>>
    ELSE InsertByCount(SortedByCount(SubSeq(items, 1, Len(items) - 1)), items[Len(items)])

\* heapq.nlargest(n, items, key=itemgetter(1))
NLargest(n, items) ==
    IF n = 1
    THEN \* max(): the first entry of the greatest count
         IF items = <<>> THEN <<>> ELSE <<Head(SortedByCount(items))>>
    ELSE IF n >= Len(items)
    THEN SubSeq(SortedByCount(items), 1, Min(n, Len(items)))
    ELSE IF n <= 0
    THEN <<>>   \* zip(range(0, -n, -1), it) is empty
    ELSE \* the heap of n entries, ordered by (count, -position)
         SubSeq(SortedByCount(items), 1, n)

\* Counter.most_common(n)
MostCommon(c, n) == IF n = None THEN SortedByCount(c) ELSE NLargest(TheValue(n), c)

\* str(title) as print writes it
StrOfTitle(t) == IF t = None THEN <<"None">> ELSE TheValue(t)

\* lines 129-132
EntryLine(term, frequency, text_len, freq_len) ==
    LJust(term, text_len) \o <<" ">> \o RJust(StrOfInt(frequency), freq_len)

\* lines 119-124: the title, the empty line, the widths and most_common(first_n)
PrintHeader ==
    /\ pc = "print_start"
    /\ out' = out \o <<StrOfTitle(title), <<>>>>
    /\ out_lines_text_len' = MinTextLen
    /\ out_lines_freq_len' = MinFreqLen
    /\ ranked' = MostCommon(terms_frequencies, first_n)
    /\ entry_idx' = 0
    /\ pc' = "print_loop"
    /\ UNCHANGED <<title, terms_frequencies, first_n>>
    /\ UNCHANGED <<stack, exc, retval, calls>>
    /\ UNCHANGED <<fetchVars, corpusVars, termVars>>

\* lines 124-132: one pass of the for loop, which widens the columns by this
\* entry and prints this entry
PrintEntry ==
    /\ pc = "print_loop" /\ entry_idx < Len(ranked)
    /\ LET term == ranked[entry_idx + 1].term
           frequency == ranked[entry_idx + 1].count
           text_len == Max(out_lines_text_len, Len(term))
           freq_len == Max(out_lines_freq_len, Len(StrOfInt(frequency)))
       IN  /\ out_lines_text_len' = text_len
           /\ out_lines_freq_len' = freq_len
           /\ out' = Append(out, EntryLine(term, frequency, text_len, freq_len))
    /\ entry_idx' = entry_idx + 1
    /\ UNCHANGED <<title, terms_frequencies, first_n, ranked>>
    /\ UNCHANGED <<pc, stack, exc, retval, calls>>
    /\ UNCHANGED <<fetchVars, corpusVars, termVars>>

\* the loop is exhausted and the function returns None
PrintReturn ==
    /\ pc = "print_loop" /\ entry_idx = Len(ranked)
    /\ retval' = None
    /\ pc' = IF stack = <<>> THEN "done" ELSE "main_returned"
    /\ UNCHANGED <<stack, exc, out, calls>>
    /\ UNCHANGED <<fetchVars, corpusVars, termVars, printVars>>

-----------------------------------------------------------------------------
(* calculate_term_frequency *)

LastCall == calls[Len(calls)]

\* lines 139-142
MainStart ==
    /\ pc = "main_start"
    /\ out' = IF verbose THEN Append(out, <<"Start calculating for URL: ">> \o url) ELSE out
    /\ stack' = <<"main">>
    /\ calls' = <<"fetch_web_page">>
    /\ pc' = "fetch_start"
    /\ UNCHANGED <<exc, retval>>
    /\ UNCHANGED <<fetchVars, corpusVars, termVars, printVars>>

\* line 143
MainExtract ==
    /\ pc = "main_returned" /\ LastCall = "fetch_web_page"
    /\ html_text' = TheValue(retval)
    /\ text_pieces' = <<>> /\ all_lines' = <<>>
    /\ calls' = Append(calls, "text_corpus_from_html")
    /\ pc' = "tc_start"
    /\ UNCHANGED <<stack, exc, retval, out>>
    /\ UNCHANGED <<fetchVars, termVars, printVars>>

\* line 144
MainAggregate ==
    /\ pc = "main_returned" /\ LastCall = "text_corpus_from_html"
    /\ title' = TheValue(retval)[1]
    /\ all_texts' = TheValue(retval)[2]
    /\ text_idx' = 0 /\ tokens' = <<>> /\ terms' = <<>>
    /\ calls' = Append(calls, "term_frequency_stats")
    /\ pc' = "tfs_loop"
    /\ UNCHANGED <<terms_frequencies, first_n, ranked, entry_idx,
                   out_lines_text_len, out_lines_freq_len>>
    /\ UNCHANGED <<stack, exc, retval, out>>
    /\ UNCHANGED <<fetchVars, corpusVars>>

\* line 145: first_n takes its default
MainPrint ==
    /\ pc = "main_returned" /\ LastCall = "term_frequency_stats"
    /\ terms_frequencies' = TheValue(retval)
    /\ first_n' = None
    /\ calls' = Append(calls, "print_term_frequencies_stats")
    /\ pc' = "print_start"
    /\ UNCHANGED <<title, ranked, entry_idx, out_lines_text_len, out_lines_freq_len>>
    /\ UNCHANGED <<stack, exc, retval, out>>
    /\ UNCHANGED <<fetchVars, corpusVars, termVars>>

\* the try block ends without an exception
MainReturn ==
    /\ pc = "main_returned" /\ LastCall = "print_term_frequencies_stats"
    /\ stack' = <<>>
    /\ pc' = "done"
    /\ UNCHANGED <<exc, retval, out, calls>>
    /\ UNCHANGED <<fetchVars, corpusVars, termVars, printVars>>

\* lines 146-151: the three handlers
\* (faulty variant: the handler of line 148 left out, InvalidHtmlData escapes)
MainExceptNoHtmlHandler ==
    /\ pc = "main_except"
    /\ IF TheValue(exc).type = "InvalidHtmlData"
       THEN /\ pc' = "raised"
            /\ UNCHANGED <<out, exc, stack>>
       ELSE /\ out' = Append(out, <<"Failed. ">> \o StrOfExc(TheValue(exc)))
            /\ exc' = None
            /\ stack' = <<>>
            /\ pc' = "done"
    /\ UNCHANGED <<retval, calls>>
    /\ UNCHANGED <<fetchVars, corpusVars, termVars, printVars>>
MainExcept ==
    /\ pc = "main_except"
    /\ out' = Append(out,
                IF TheValue(exc).type \in {"InvalidUrlException", "InvalidHtmlData"}
                THEN <<"Failed. ">> \o StrOfExc(TheValue(exc))
                ELSE <<"Failed. Unexpected exception occurred: ">> \o StrOfExc(TheValue(exc)))
    /\ exc' = None
    /\ stack' = <<>>
    /\ pc' = "done"
    /\ UNCHANGED <<retval, calls>>
    /\ UNCHANGED <<fetchVars, corpusVars, termVars, printVars>>

-----------------------------------------------------------------------------
(* Initial values of the variables a specification does not use *)

IdleCtl   == stack = <<>> /\ exc = None /\ retval = None /\ out = <<>> /\ calls = <<>>
IdleFetch ==
    /\ url = <<>> /\ verbose = FALSE /\ req_response = None
    /\ net = NoResponse
IdleCorpus == html_text = EmptyPage /\ text_pieces = <<>> /\ all_lines = <<>>
IdleTerms == all_texts = <<>> /\ text_idx = 0 /\ tokens = <<>> /\ terms = <<>>
IdlePrint ==
    /\ title = None /\ terms_frequencies = <<>> /\ first_n = None /\ ranked = <<>>
    /\ entry_idx = 0 /\ out_lines_text_len = 0 /\ out_lines_freq_len = 0

-----------------------------------------------------------------------------
(* Specification of term_frequency_stats alone *)

TermChars == {"a", "h", "H", CapitalIDot, "1", "?", " "}
\* every list of lines whose characters and line breaks number at most MaxText
TermInputs ==
    {<<>>} \cup {Split(s, NL) : s \in BoundedSeq(TermChars \cup {NL}, MaxText)}

InitTerms ==
    /\ pc = "tfs_loop"
    /\ IdleCtl /\ IdleFetch /\ IdleCorpus /\ IdlePrint
    /\ all_texts \in TermInputs
    /\ text_idx = 0 /\ tokens = <<>> /\ terms = <<>>

NextTerms == TfsNextText \/ TfsCountToken \/ TfsReturn

SpecTerms == InitTerms /\ [][NextTerms]_vars

-----------------------------------------------------------------------------
(* Specification of text_corpus_from_html alone *)

PieceTexts   == {<<" ", "x", NL, NL, " ", "y", " ">>}
CommentTexts == {<<"h">>}
TagNames     == {"div", "cell", "title"}
NodeShapes ==
    [kind : {"tag"}, name : TagNames, text : {<<>>}]
    \cup [kind : {"str"}, name : {""}, text : PieceTexts]
    \cup [kind : {"comment"}, name : {""}, text : CommentTexts]

\* The open elements after the nodes of doc: the last node's ancestors and self
RECURSIVE PathTo(_, _)
PathTo(doc, i) == IF i = 0 THEN {0} ELSE {i} \cup PathTo(doc, doc[i].parent)
\* The places the parser can put the next node: under the soup or an open tag.
\* It joins a string to a string just before it, so no two str nodes are adjacent
\* siblings.
CanAdd(doc, shape, p) ==
    /\ p \in PathTo(doc, Len(doc))
    /\ p # 0 => IsTag(doc, p)
    /\ (shape.kind = "str" /\ Contents(doc, p) # <<>>) =>
           doc[Contents(doc, p)[Len(Contents(doc, p))]].kind # "str"
AddNode(doc, shape, p) ==
    Append(doc, [kind |-> shape.kind, name |-> shape.name, text |-> shape.text,
                 parent |-> p])

\* The argument html_text is any page of at most MaxNodes nodes: before the
\* body starts the page is drawn node by node, in document order.
PageAppend ==
    /\ pc = "tc_start" /\ stack = <<>>
    /\ html_text.parsed /\ Len(html_text.nodes) < MaxNodes
    /\ \E shape \in NodeShapes, p \in 0..Len(html_text.nodes) :
          /\ CanAdd(html_text.nodes, shape, p)
          /\ html_text' = [html_text EXCEPT !.nodes = AddNode(@, shape, p)]
    /\ UNCHANGED <<text_pieces, all_lines>>
    /\ UNCHANGED <<ctlVars, fetchVars, termVars, printVars>>

InitCorpus ==
    /\ pc = "tc_start"
    /\ IdleCtl /\ IdleTerms /\ IdlePrint
    /\ url = <<>> /\ net = NoResponse /\ req_response = None
    /\ verbose \in BOOLEAN
    /\ html_text \in {EmptyPage, RejectedPage}
    /\ text_pieces = <<>> /\ all_lines = <<>>

NextCorpus == PageAppend \/ CorpusCollect \/ CorpusLines \/ CorpusTitle \/ CorpusExcept

SpecCorpus == InitCorpus /\ [][NextCorpus]_vars

-----------------------------------------------------------------------------
(* Specification of print_term_frequencies_stats alone *)

Word(c, n) == [i \in 1..n |-> c]
PrintTerms  == {<<"x">>, <<"h", "a">>, Word("h", 13), Word("y", 14)}
PrintCounts == {1, 2, 12345}
\* Counters of at most MaxEntries entries: each term once
Counters ==
    {c \in BoundedSeq([term : PrintTerms, count : PrintCounts], MaxEntries) :
        \A i, j \in 1..Len(c) : c[i].term = c[j].term => i = j}

InitPrint ==
    /\ pc = "print_start"
    /\ IdleCtl /\ IdleFetch /\ IdleCorpus /\ IdleTerms
    /\ title \in {None, Some(<<"t">>)}
    /\ terms_frequencies \in Counters
    /\ first_n \in {None} \cup {Some(n) : n \in (0 - 1)..(MaxEntries + 1)}
    /\ ranked = <<>> /\ entry_idx = 0
    /\ out_lines_text_len = 0 /\ out_lines_freq_len = 0

NextPrint == PrintHeader \/ PrintEntry \/ PrintReturn

SpecPrint == InitPrint /\ [][NextPrint]_vars

-----------------------------------------------------------------------------
(* Specification of fetch_web_page alone *)

Urls     == {<<"u">>, <<"v">>}
Statuses == {200, 301, 404, 500}
InitFetch ==
    /\ pc = "fetch_start"
    /\ IdleCtl /\ IdleCorpus /\ IdleTerms /\ IdlePrint
    /\ url \in Urls
    /\ verbose \in BOOLEAN
    /\ net \in {NoResponse} \cup {Response(st, pg) : st \in Statuses, pg \in {EmptyPage, RejectedPage}}
    /\ req_response = None

NextFetch == FetchGet \/ FetchStatus \/ FetchExcept

SpecFetch == InitFetch /\ [][NextFetch]_vars

-----------------------------------------------------------------------------
(* Specification of calculate_term_frequency: the whole program *)

\* The server's page is any page of at most MaxPageNodes nodes: before the
\* command starts the page is drawn node by node, in document order.
ResponseAppend ==
    /\ pc = "main_start"
    /\ net.ok /\ net.text.parsed /\ Len(net.text.nodes) < MaxPageNodes
    /\ \E shape \in NodeShapes, p \in 0..Len(net.text.nodes) :
          /\ CanAdd(net.text.nodes, shape, p)
          /\ net' = [net EXCEPT !.text.nodes = AddNode(@, shape, p)]
    /\ UNCHANGED <<url, verbose, req_response>>
    /\ UNCHANGED <<ctlVars, corpusVars, termVars, printVars>>

Init ==
    /\ pc = "main_start"
    /\ IdleCtl /\ IdleCorpus /\ IdleTerms /\ IdlePrint
    /\ url \in {<<"u">>}
    /\ verbose \in BOOLEAN
    /\ net \in {NoResponse} \cup {Response(st, pg) : st \in {200, 404}, pg \in {EmptyPage, RejectedPage}}
    /\ req_response = None

Next ==
    \/ ResponseAppend
    \/ MainStart \/ MainExtract \/ MainAggregate \/ MainPrint \/ MainReturn \/ MainExcept
    \/ FetchGet \/ FetchStatus \/ FetchExcept
    \/ CorpusCollect \/ CorpusLines \/ CorpusTitle \/ CorpusExcept
    \/ TfsNextText \/ TfsCountToken \/ TfsReturn
    \/ PrintHeader \/ PrintEntry \/ PrintReturn

Spec == Init /\ [][Next]_vars

-----------------------------------------------------------------------------
(* Claims about text_corpus_from_html, checked under SpecCorpus *)

Page == html_text.nodes
ReturnedTitle == TheValue(retval)[1]
ReturnedLines == TheValue(retval)[2]
IsDiv(i) == i # 0 /\ IsTag(Page, i) /\ Page[i].name = "div"
\* A text fragment of the document: a string node that is not a comment
IsTextFragment(i) == Page[i].kind = "str"
\* The text of an element: the text fragments below it, in document order
TextFragmentsBelow(i) ==
    Ascending({j \in 1..Len(Page) : IsTextFragment(j) /\ i \in PathTo(Page, Page[j].parent)})
LiteralText(i) == Flatten([n \in 1..Len(TextFragmentsBelow(i)) |-> Page[TextFragmentsBelow(i)[n]].text])

\* C2: text_corpus_from_html raises InvalidHtmlData for every input that is
\* empty, is not markup or has no title element, never returns normally for a
\* document without a title element, and a title it returns is the literal text
\* of the title element.
C2_TitleContract ==
    /\ (pc \in {"done", "raised"} /\ (~html_text.parsed \/ SoupTitle(Page) = None)) =>
           (pc = "raised" /\ exc = Some(InvalidHtmlData))
    /\ pc = "done" =>
           ReturnedTitle = Some(LiteralText(TheValue(SoupTitle(Page))))

\* The part of C2 the code keeps: InvalidHtmlData for every page that is rejected
\* or has no title element, and a normal return for every other page.
C2_RaisesWithoutTitle ==
    pc \in {"done", "raised"} =>
        /\ pc = "raised" <=> (~html_text.parsed \/ SoupTitle(Page) = None)
        /\ pc = "raised" => exc = Some(InvalidHtmlData)

\* C2 case: a page whose title element is empty has been processed
C2_Witness ==
    /\ pc = "done"
    /\ Contents(Page, TheValue(SoupTitle(Page))) = <<>>
    /\ ReturnedTitle = None

\* The pieces of a page that are text fragments directly under a div
DirectDivText == {c \in 1..Len(Page) : IsTextFragment(c) /\ IsDiv(Page[c].parent)}
PieceSet == {text_pieces[p] : p \in 1..Len(text_pieces)}
KeptLines(c) == NonEmpty(PieceLines(Page[c].text))

\* C3: the returned lines come exactly from the text fragments that are direct
\* children of a div: the selected pieces are those fragments, each once, and
\* the lines are the lines of those pieces and nothing else.
C3_DirectDivTextOnly ==
    pc = "done" =>
        /\ PieceSet = DirectDivText
        /\ Cardinality(PieceSet) = Len(text_pieces)
        /\ ReturnedLines = Flatten([p \in 1..Len(text_pieces) |-> KeptLines(text_pieces[p])])

\* What the code selects instead: every str instance under a div, comments included
C3_DirectDivStrOnly ==
    pc = "done" =>
        /\ PieceSet = {c \in 1..Len(Page) : IsStr(Page, c) /\ IsDiv(Page[c].parent)}
        /\ Cardinality(PieceSet) = Len(text_pieces)
        /\ ReturnedLines = Flatten([p \in 1..Len(text_pieces) |-> KeptLines(text_pieces[p])])

\* C3 case: a comment under a div has become a line
C3_Witness ==
    /\ pc = "done"
    /\ \E c \in PieceSet : Page[c].kind = "comment"
    /\ <<"h">> \in {ReturnedLines[n] : n \in 1..Len(ReturnedLines)}

\* C4: no returned line is empty and no returned line begins or ends with a
\* whitespace character.
C4_LinesTrimmed ==
    pc = "done" =>
        \A n \in 1..Len(ReturnedLines) :
            /\ ReturnedLines[n] # <<>>
            /\ ~IsSpaceChar(ReturnedLines[n][1])
            /\ ~IsSpaceChar(ReturnedLines[n][Len(ReturnedLines[n])])

\* The part of C4 the code keeps: no returned line is empty, the first line of a
\* piece does not begin with whitespace and its last line does not end with it.
C4_LinesNonEmpty ==
    pc = "done" => \A n \in 1..Len(ReturnedLines) : ReturnedLines[n] # <<>>

\* C4 case: a piece with an indented second line has been split
C4_Witness ==
    /\ pc = "done"
    /\ \E n \in 1..Len(ReturnedLines) : ReturnedLines[n] = <<" ", "y">>

\* C9: the lines are grouped by container in document order of the containers:
\* of two selected pieces the earlier one's div starts no later than the other's
\* (a nested div counts as later), within a div the pieces keep the order of its
\* children, and each piece's lines stand together in the order of the pieces.
C9_ContainerOrder ==
    /\ \A p, q \in 1..Len(text_pieces) :
           p < q => \/ Page[text_pieces[p]].parent < Page[text_pieces[q]].parent
                    \/ /\ Page[text_pieces[p]].parent = Page[text_pieces[q]].parent
                       /\ text_pieces[p] < text_pieces[q]
    /\ pc = "done" =>
           /\ \A c \in 1..Len(Page) :
                  (Page[c].kind = "str" /\ IsDiv(Page[c].parent)) => c \in PieceSet
           /\ ReturnedLines = Flatten([p \in 1..Len(text_pieces) |-> KeptLines(text_pieces[p])])

\* C9 witness: the text of a nested div stands before the outer div's later text
\* in the document and after it in the lines
C9_Witness ==
    /\ pc = "done"
    /\ \E p, q \in 1..Len(text_pieces) :
           /\ p < q /\ text_pieces[p] > text_pieces[q]
           /\ Page[Page[text_pieces[q]].parent].parent = Page[text_pieces[p]].parent
    /\ Len(ReturnedLines) = 4

-----------------------------------------------------------------------------
(* Claims about term_frequency_stats, checked under SpecTerms *)

\* The tokens of the input: <<i, j>> is token j of line i
TokenAt(i, j) == WordPunctTokenize(all_texts[i])[j]
TokenPlaces ==
    {p \in (1..Len(all_texts)) \X (1..MaxText) :
        p[2] <= Len(WordPunctTokenize(all_texts[p[1]]))}
\* The tokens the specification counts for term t
CountedPlaces(t) ==
    {p \in TokenPlaces :
        /\ IsAlpha(TokenAt(p[1], p[2]))
        /\ Lower(TokenAt(p[1], p[2])) = t
        /\ t \notin StopWords}

\* C1: the table term_frequency_stats returns gives each term t the number of
\* input tokens that are alphabetic, lower-case to t and are not stopwords,
\* and holds no other term (each key once, each key counted at least once).
C1_TermCounts ==
    pc = "done" =>
        LET table == TheValue(retval)
            candidates == CounterKeys(table)
                          \cup {Lower(TokenAt(p[1], p[2])) : p \in TokenPlaces}
        IN  /\ Cardinality(CounterKeys(table)) = Len(table)
            /\ \A t \in candidates : CounterGet(table, t) = Cardinality(CountedPlaces(t))
            /\ \A t \in CounterKeys(table) : CountedPlaces(t) # {}

\* C1 witness: 'H?h?' (the shape of 'Hamburger? hamburger!') counts h twice
C1_Witness ==
    /\ pc = "done"
    /\ all_texts = << <<"H", "?", "h", "?">> >>
    /\ retval = Some(<< [term |-> <<"h">>, count |-> 2] >>)

\* C1 second witness state: a stopword, a digit token and an empty line add nothing
C1_WitnessFiltered ==
    /\ pc = "done"
    /\ all_texts = << <<"a", " ", "1">>, <<>> >>
    /\ retval = Some(<<>>)

IsLowerAlphaTerm(t) == t # <<>> /\ \A i \in 1..Len(t) : t[i] \in LowerLetters

\* C10: in every state of the loop each key of the running table is a non-empty
\* string of lowercase alphabetic characters and each count is never negative,
\* and no step lowers a count or removes a key.
C10_TableInvariant ==
    [][/\ \A t \in CounterKeys(terms') :
              IsLowerAlphaTerm(t) /\ CounterGet(terms', t) >= 0
       /\ \A t \in CounterKeys(terms) :
              t \in CounterKeys(terms') /\ CounterGet(terms', t) >= CounterGet(terms, t)
      ]_vars

\* The part of C10 that the code keeps: counts are positive and never decrease,
\* keys are never removed, and every key is the lower-casing of an alphabetic token.
C10_CountsMonotone ==
    [][/\ \A t \in CounterKeys(terms') : CounterGet(terms', t) >= 1
       /\ \A t \in CounterKeys(terms) :
              t \in CounterKeys(terms') /\ CounterGet(terms', t) >= CounterGet(terms, t)
      ]_vars

\* C10 case: the token U+0130 has been counted
C10_Witness == pc = "tfs_loop" /\ <<"i", CombiningDot>> \in CounterKeys(terms)

-----------------------------------------------------------------------------
(* Claims about print_term_frequencies_stats, checked under SpecPrint *)

\* The entry lines of the output: everything after the title and the empty line
EntryLines == SubSeq(out, 3, Len(out))
\* line shows entry e: the term, spaces, and the count at the end
LineShows(line, e) ==
    LET t == e.term
        n == StrOfInt(e.count)
    IN  /\ Len(line) >= Len(t) + 1 + Len(n)
        /\ SubSeq(line, 1, Len(t)) = t
        /\ SubSeq(line, Len(line) - Len(n) + 1, Len(line)) = n
        /\ \A i \in (Len(t) + 1)..(Len(line) - Len(n)) : line[i] = " "
\* The place of the table's entry i in the listing by descending count, entries
\* of equal count in insertion order
RankOf(table, i) ==
    1 + Cardinality({j \in 1..Len(table) :
            \/ table[j].count > table[i].count
            \/ table[j].count = table[i].count /\ j < i})
\* How many entries are to be rendered
RenderCount(table, n) ==
    IF n = None THEN Len(table) ELSE Max(0, Min(TheValue(n), Len(table)))

\* C5: the entries are rendered in descending order of count, entries of equal
\* count in insertion order; with first_n exactly the first min(first_n, size)
\* of that order are rendered, and with None all of them.
C5_RenderOrder ==
    pc = "done" =>
        /\ Len(EntryLines) = RenderCount(terms_frequencies, first_n)
        /\ \A i \in 1..Len(terms_frequencies) :
               RankOf(terms_frequencies, i) <= Len(EntryLines) =>
                   LineShows(EntryLines[RankOf(terms_frequencies, i)], terms_frequencies[i])

\* C5 witness: two entries of equal count, the later one cut off by first_n = 2,
\* behind an entry of greater count that was inserted last
C5_Witness ==
    /\ pc = "done"
    /\ first_n = Some(2)
    /\ Len(terms_frequencies) = 3
    /\ terms_frequencies[1].count = 1 /\ terms_frequencies[2].count = 1
    /\ terms_frequencies[3].count = 2
    /\ Len(EntryLines) = 2
    /\ LineShows(EntryLines[1], terms_frequencies[3])
    /\ LineShows(EntryLines[2], terms_frequencies[1])

\* C5 second witness state: first_n = None renders every entry
C5_WitnessAll ==
    /\ pc = "done" /\ first_n = None
    /\ Len(terms_frequencies) = MaxEntries /\ Len(EntryLines) = MaxEntries

RECURSIVE MaxOver(_, _)
MaxOver(least, lens) ==
    IF lens = <<>> THEN least ELSE Max(Head(lens), MaxOver(least, Tail(lens)))
\* The widths of the listing: over all rendered entries
ListingTextLen == MaxOver(MinTextLen, [i \in 1..Len(ranked) |-> Len(ranked[i].term)])
ListingFreqLen == MaxOver(MinFreqLen, [i \in 1..Len(ranked) |-> Len(StrOfInt(ranked[i].count))])

\* C6: every rendered entry line uses the same column widths, max(12, longest
\* rendered term) and max(4, longest rendered count string), wherever the entry
\* stands in the listing.
C6_ColumnWidths ==
    pc = "done" =>
        \A i \in 1..Len(EntryLines) :
            EntryLines[i] = EntryLine(ranked[i].term, ranked[i].count,
                                      ListingTextLen, ListingFreqLen)

\* What the code does instead: line i is as wide as the entries 1..i need
C6_RunningWidths ==
    pc = "done" =>
        \A i \in 1..Len(EntryLines) :
            EntryLines[i] =
                EntryLine(ranked[i].term, ranked[i].count,
                          MaxOver(MinTextLen, [j \in 1..i |-> Len(ranked[j].term)]),
                          MaxOver(MinFreqLen, [j \in 1..i |-> Len(StrOfInt(ranked[j].count))]))

\* C6 case: a term longer than 12 characters is listed below a shorter one
C6_Witness ==
    /\ pc = "done"
    /\ Len(ranked) >= 2
    /\ Len(ranked[1].term) < Len(ranked[2].term) /\ Len(ranked[2].term) > MinTextLen
    /\ Len(EntryLines[1]) < Len(EntryLines[2])

-----------------------------------------------------------------------------
(* Claims about fetch_web_page, checked under SpecFetch *)

\* C7: fetch_web_page raises InvalidUrlException carrying the url whenever the
\* page cannot be fetched or the status is not 200; the exception's code is the
\* received status when a response was received, and None when none was.
C7_RetrievalError ==
    pc \in {"done", "raised"} =>
        /\ (~net.ok \/ net.status_code # 200) => pc = "raised"
        /\ pc = "raised" =>
              /\ TheValue(exc).type = "InvalidUrlException"
              /\ TheValue(exc).url = url
              /\ TheValue(exc).code =
                    IF req_response = None THEN None
                    ELSE Some(TheValue(req_response).status_code)

\* The part of C7 the code keeps: InvalidUrlException with the url, exactly when
\* there is no response or its status is not 200, and always without a code.
C7_RaisesWithUrl ==
    pc \in {"done", "raised"} =>
        /\ pc = "raised" <=> (~net.ok \/ net.status_code # 200)
        /\ pc = "raised" => exc = Some(InvalidUrlException(url, None))
        /\ pc = "done" => retval = Some(net.text)

\* C7 case: a response of status 404 was received and the function has raised
C7_Witness ==
    /\ pc = "raised"
    /\ req_response # None /\ TheValue(req_response).status_code = 404
    /\ TheValue(exc).code = None

-----------------------------------------------------------------------------
(* Claims about calculate_term_frequency, checked under Spec *)

Stages == <<"fetch_web_page", "text_corpus_from_html", "term_frequency_stats",
            "print_term_frequencies_stats">>
Range(f) == {f[i] : i \in DOMAIN f}
FetchFails == ~net.ok \/ net.status_code # 200
ExtractFails == ~FetchFails /\ (~net.text.parsed \/ SoupTitle(net.text.nodes) = None)
StartsWithFailed(line) ==
    line # <<>> /\ line[1] \in {"Failed. ", "Failed. Unexpected exception occurred: "}

\* Some action of the program can be taken: its position has an action, and
\* the guards of the actions at a loop head or a return cover every case there
RunCanStep ==
    \/ pc \in {"main_start", "main_except", "fetch_start", "fetch_status", "fetch_except",
               "tc_start", "tc_lines", "tc_title", "tc_except", "print_start"}
    \/ pc = "tfs_loop" /\ (tokens # <<>> \/ text_idx <= Len(all_texts))
    \/ pc = "print_loop" /\ entry_idx <= Len(ranked)
    \/ pc = "main_returned" /\ calls # <<>> /\ LastCall \in Range(Stages)

\* C8: every run calls fetch, extract, aggregate and print in that order and no
\* exception escapes; when a stage fails no later stage runs and, without
\* verbose, the output is exactly one line starting with 'Failed.', a different
\* one for a retrieval failure and for a malformed document; when no stage fails
\* the output is the title, an empty line and one line for every term of the
\* table, and no 'Failed.' line.
C8_PipelineOutcome ==
    /\ pc # "raised"
    /\ calls = SubSeq(Stages, 1, Len(calls))
    /\ pc # "done" => RunCanStep
    /\ pc = "done" =>
        /\ exc = None /\ stack = <<>>
        /\ FetchFails => calls = SubSeq(Stages, 1, 1)
        /\ ExtractFails => calls = SubSeq(Stages, 1, 2)
        /\ (FetchFails \/ ExtractFails) /\ ~verbose =>
              /\ Len(out) = 1 /\ StartsWithFailed(out[1])
              /\ FetchFails => out[1] # <<"Failed. ">> \o StrOfExc(InvalidHtmlData)
              /\ ExtractFails => out[1] = <<"Failed. ">> \o StrOfExc(InvalidHtmlData)
        /\ (FetchFails \/ ExtractFails) =>
              /\ StartsWithFailed(out[Len(out)])
              /\ Cardinality({n \in 1..Len(out) : StartsWithFailed(out[n])}) = 1
        /\ ~(FetchFails \/ ExtractFails) =>
              LET shown == SubSeq(out, IF verbose THEN 2 ELSE 1, Len(out))
                  table == terms
              IN  /\ calls = Stages
                  /\ \A n \in 1..Len(out) : ~StartsWithFailed(out[n])
                  /\ Len(shown) = 2 + Len(table)
                  /\ shown[1] = StrOfTitle(title) /\ shown[2] = <<>>
                  /\ \A i \in 1..Len(table) :
                         LineShows(shown[2 + RankOf(table, i)], table[i])

\* C8 witness: a run in which no stage fails and the listing has two entries
C8_Witness ==
    /\ pc = "done" /\ ~verbose
    /\ calls = Stages
    /\ Len(terms) = 2 /\ Len(out) = 4

\* C8 second witness state: a malformed document ends the run after extract
C8_WitnessMalformed ==
    /\ pc = "done" /\ ~verbose
    /\ calls = SubSeq(Stages, 1, 2)
    /\ out = << <<"Failed. ", "Given web page is not a valid html file">> >>

\* C8 third witness state: a retrieval failure ends the run after fetch
C8_WitnessRetrieval ==
    /\ pc = "done" /\ ~verbose
    /\ calls = SubSeq(Stages, 1, 1)
    /\ out = << <<"Failed. ", "Exception occurred while loading ", "u">> >>

====
